---- MODULE Spec2Model ----
(***************************************************************************)
(* The wire codec of btcnetmsg (src/src/encode.rs): the Encode and Decode  *)
(* implementations for little-endian integers, byte arrays,                *)
(* VariableInteger, Magic, Command, MessageHeader, Message, ServicesList,  *)
(* NetAddr, VersionMessage and VerackMessage, run against an in-memory     *)
(* byte sink and byte source the way the module's unit tests run them.     *)
(*                                                                         *)
(* A u64 is a tuple of four 16-bit limbs, least significant first, because *)
(* the model checker's integers are narrower than 64 bits.  Narrower       *)
(* integers are u64 values whose high limbs are zero.  A byte is 0..255.   *)
(***************************************************************************)
EXTENDS Integers, Sequences, FiniteSets, TLC

VARIABLES pc, kind, val, w, ret, feed, r, res

vars == <<pc, kind, val, w, ret, feed, r, res>>

(***************************************************************************)
(* Bounds of the model.                                                    *)
(***************************************************************************)
\* largest remaining room of a fixed-size sink (a `&mut [u8]` writer)
MaxRoom == 3
\* how many bytes at most are cut off the end of the encoded bytes
MaxCut == 2
\* how many bytes at most follow the encoded bytes in the source
MaxTrail == 1

\* limb values the sampled integers are built from: the low limb, and each
\* of the three higher limbs
LowLimbs == {0, 1, 252, 253, 4660, 65535}
HighLimbs == {0, 1, 65535}

\* byte values that may follow a value in the source
TrailBytes == {0, 5, 253}

Min(a, b) == IF a < b THEN a ELSE b

(***************************************************************************)
(* 64-bit arithmetic on limbs.                                             *)
(***************************************************************************)
Zero64 == <<0, 0, 0, 0>>

\* `b as u64` for a byte b
FromByte(b) == <<b, 0, 0, 0>>

RECURSIVE XorNat(_, _)
XorNat(a, b) ==
    IF a = 0 THEN b
    ELSE IF b = 0 THEN a
    ELSE (((a % 2) + (b % 2)) % 2) + 2 * XorNat(a \div 2, b \div 2)

\* x ^ y on u64
Xor64(x, y) == [j \in 1..4 |-> XorNat(x[j], y[j])]

\* x << 8 on u64: the bits shifted out of the top are dropped
Shl8(x) ==
    [j \in 1..4 |->
        ((x[j] * 256) % 65536) + (IF j = 1 THEN 0 ELSE x[j - 1] \div 256)]

\* `x as uN` for N = 8 * n: the low n bytes of x
Cast(x, n) ==
    IF n = 1 THEN <<x[1] % 256, 0, 0, 0>>
    ELSE IF n = 2 THEN <<x[1], 0, 0, 0>>
    ELSE IF n = 4 THEN <<x[1], x[2], 0, 0>>
    ELSE x

\* byte k (0 = least significant) of x
ByteAt(x, k) ==
    LET l == x[(k \div 2) + 1]
    IN  IF k % 2 = 0 THEN l % 256 ELSE l \div 256

\* uN::to_le_bytes for N = 8 * n
ToLeBytes(x, n) == [k \in 1..n |-> ByteAt(x, k - 1)]

\* x <= 0xFC, x <= 0xFFFF, x <= 0xFFFF_FFFF: the match ranges of a u64
Le0xFC(x) == x[1] <= 252 /\ x[2] = 0 /\ x[3] = 0 /\ x[4] = 0
Le0xFFFF(x) == x[2] = 0 /\ x[3] = 0 /\ x[4] = 0
Le0xFFFFFFFF(x) == x[3] = 0 /\ x[4] = 0

(***************************************************************************)
(* The byte sink (std::io::Write) and the byte source (std::io::Read).     *)
(* A sink is a Vec<u8> (takes everything), a fixed-size `&mut [u8]` (takes *)
(* what still fits and reports how much) or a writer whose write fails.    *)
(* A source is an in-memory `&[u8]`.                                       *)
(***************************************************************************)
VecSink == [kind |-> "vec", bytes |-> <<>>, room |-> 0]
SliceSink(n) == [kind |-> "slice", bytes |-> <<>>, room |-> n]
BrokenSink == [kind |-> "broken", bytes |-> <<>>, room |-> 0]

Sinks == {VecSink, BrokenSink} \cup {SliceSink(n) : n \in 0..MaxRoom}

\* w.write(data).expect("Failed to write"): ok = FALSE is the panic
Write(s, data) ==
    IF s.kind = "broken" THEN [w |-> s, n |-> 0, ok |-> FALSE]
    ELSE LET k == IF s.kind = "vec" THEN Len(data) ELSE Min(Len(data), s.room)
         IN  [w |-> [s EXCEPT !.bytes = @ \o SubSeq(data, 1, k),
                              !.room = IF s.kind = "vec" THEN @ ELSE @ - k],
              n |-> k,
              ok |-> TRUE]

\* r.read(&mut buf) on a zeroed buf of n bytes: a short source fills a prefix
Read(src, n) ==
    LET k == Min(n, Len(src))
    IN  [len |-> k,
         buf |-> [i \in 1..n |-> IF i <= k THEN src[i] ELSE 0],
         r |-> SubSeq(src, k + 1, Len(src))]

\* r.read_exact(&mut buf): fails when the source holds fewer than n bytes
ReadExact(src, n) ==
    IF Len(src) < n
    THEN [ok |-> FALSE, buf |-> [i \in 1..n |-> 0], r |-> src]
    ELSE [ok |-> TRUE, buf |-> SubSeq(src, 1, n), r |-> SubSeq(src, n + 1, Len(src))]

(***************************************************************************)
(* Outcomes of a decode: Result<Self, Error>, or the process panicking.    *)
(***************************************************************************)
Ok(v) == [tag |-> "Ok", val |-> v]
Err(e) == [tag |-> "Err", val |-> e]
Panic == [tag |-> "Panic", val |-> "panic"]

(***************************************************************************)
(* Fixed-width integers and byte arrays.                                   *)
(***************************************************************************)
(***************************************************************************)
(* No encoder looks at what the sink did with an earlier write, so an      *)
(* encoder is the list of steps it takes, in order, and Run takes them on  *)
(* a sink.  A step is a `write(..).expect(..)` whose count is the value of *)
(* the call (Counted) or is dropped (Dropped), a literal that is the value *)
(* of the call (Literal), or a panic.  The value of a `+` of calls is the  *)
(* sum of the values of its steps.                                         *)
(***************************************************************************)
Counted(data) == [op |-> "write", data |-> data, counted |-> TRUE]
Dropped(data) == [op |-> "write", data |-> data, counted |-> FALSE]
Literal(n) == [op |-> "literal", n |-> n]
PanicStep == [op |-> "panic"]

\* `call;` as a statement: the steps of the call with its value dropped
Discard(steps) ==
    [i \in 1..Len(steps) |->
        IF steps[i].op = "write" THEN Dropped(steps[i].data) ELSE steps[i]]

\* the steps from the first one on a sink s, n being the value so far.  Each
\* write is bound once before the rest is run
RECURSIVE Run(_, _, _)
Run(steps, s, n) ==
    IF steps = <<>> THEN [w |-> s, n |-> n, ok |-> TRUE]
    ELSE IF Head(steps).op = "panic" THEN [w |-> s, n |-> n, ok |-> FALSE]
    ELSE IF Head(steps).op = "literal"
    THEN Run(Tail(steps), s, n + Head(steps).n)
    ELSE CHOOSE out \in
            {IF a.ok
             THEN Run(Tail(steps), a.w,
                      n + (IF Head(steps).counted THEN a.n ELSE 0))
             ELSE [w |-> a.w, n |-> n, ok |-> FALSE] :
                a \in {Write(s, Head(steps).data)}} : TRUE

\* integer_le_encode!: write the little-endian bytes, return the count written
IntSteps(x, n) == <<Counted(ToLeBytes(x, n))>>
IntEncode(x, n, s) == Run(IntSteps(x, n), s, 0)

\* the loop without its `ret = ret << 8`
RECURSIVE DecodeLoopNoShift(_, _, _)
DecodeLoopNoShift(buf, i, acc) ==
    LET x == Xor64(acc, FromByte(buf[i]))
    IN  IF i = 1 THEN x ELSE DecodeLoopNoShift(buf, i - 1, x)

\* the loop of integer_le_decode!, from index i down to the first byte
RECURSIVE DecodeLoop(_, _, _)
DecodeLoop(buf, i, acc) ==
    LET x == Xor64(acc, FromByte(buf[i]))
    IN  IF i = 1 THEN x ELSE DecodeLoop(buf, i - 1, Shl8(x))

\* integer_le_decode!
IntDecode(n, src) ==
    LET rd == ReadExact(src, n)
    IN  IF ~rd.ok THEN [res |-> Panic, r |-> rd.r]
        ELSE [res |-> Ok(Cast(DecodeLoop(rd.buf, n, Zero64), n)), r |-> rd.r]

\* array_encode!
ArraySteps(a) == <<Counted(a)>>
ArrayEncode(a, s) == Run(ArraySteps(a), s, 0)

\* array_decode!
ArrayDecode(n, src) ==
    LET rd == ReadExact(src, n)
    IN  IF ~rd.ok THEN [res |-> Panic, r |-> rd.r]
        ELSE [res |-> Ok(rd.buf), r |-> rd.r]

(***************************************************************************)
(* VariableInteger.                                                        *)
(***************************************************************************)
\* an arm of the match: the marker byte, then the value at the arm's width
\* as a statement, then the arm's literal
VarIntWide(v, marker, n) ==
    <<Dropped(<<marker>>)>> \o Discard(IntSteps(Cast(v, n), n)) \o <<Literal(n + 1)>>

\* the match with its first arm one too wide, 0..=0xFD
VarIntStepsWideFirstArm(v) ==
    IF Le0xFC(v) \/ v = <<253, 0, 0, 0>> THEN IntSteps(Cast(v, 1), 1)
    ELSE IF Le0xFFFF(v) THEN VarIntWide(v, 253, 2)
    ELSE IF Le0xFFFFFFFF(v) THEN VarIntWide(v, 254, 4)
    ELSE VarIntWide(v, 255, 8)

\* impl Encode for VariableInteger
VarIntSteps(v) ==
    IF Le0xFC(v) THEN IntSteps(Cast(v, 1), 1)
    ELSE IF Le0xFFFF(v) THEN VarIntWide(v, 253, 2)
    ELSE IF Le0xFFFFFFFF(v) THEN VarIntWide(v, 254, 4)
    ELSE VarIntWide(v, 255, 8)
VarIntEncode(v, s) == Run(VarIntSteps(v), s, 0)

\* impl Decode for VariableInteger
VarIntDecode(src) ==
    LET rd == Read(src, 10)
    IN  IF rd.len = 1
        THEN [res |-> Ok(FromByte(rd.buf[1])), r |-> rd.r]
        ELSE [res |-> IntDecode(8, SubSeq(rd.buf, 2, 9)).res, r |-> rd.r]

(***************************************************************************)
(* Magic and Command.  The enums live in the msg::header module; encode.rs *)
(* uses Magic::bytes, Magic::from, Command::to_str and Command::from_str.  *)
(***************************************************************************)
Reverse(a) == [i \in 1..Len(a) |-> a[Len(a) + 1 - i]]

\* Magic::bytes: Main is F9 BE B4 D9 and Test is FA BF B5 DA on the wire
MagicBytes(m) ==
    IF m = "Main" THEN <<249, 190, 180, 217>> ELSE <<250, 191, 181, 218>>

\* Magic::from([u8; 4]): called on the reversed wire bytes
MagicFrom(buf) ==
    IF buf = <<217, 180, 190, 249>> THEN "Main"
    ELSE IF buf = <<218, 181, 191, 250>> THEN "Test"
    ELSE "Unknown"

\* impl Encode for Magic
MagicSteps(m) == ArraySteps(MagicBytes(m))
MagicEncode(m, s) == Run(MagicSteps(m), s, 0)

\* impl Decode for Magic
MagicDecode(src) ==
    LET rd == Read(src, 4)
        m == MagicFrom(Reverse(rd.buf))
    IN  IF m = "Unknown" THEN [res |-> Err("InvalidData"), r |-> rd.r]
        ELSE [res |-> Ok(m), r |-> rd.r]

\* the ASCII bytes of "version" and of "verack"
VersionStr == <<118, 101, 114, 115, 105, 111, 110>>
VerackStr == <<118, 101, 114, 97, 99, 107>>

\* Command::to_str
CommandToStr(c) == IF c = "Version" THEN VersionStr ELSE VerackStr

\* Command::from_str
CommandFromStr(str) ==
    IF str = VersionStr THEN Ok("Version")
    ELSE IF str = VerackStr THEN Ok("Verack")
    ELSE Err("InvalidData")

\* str left-justified in a zeroed field of n bytes
Pad(str, n) == [i \in 1..n |-> IF i <= Len(str) THEN str[i] ELSE 0]

\* impl Encode for Command
CommandSteps(c) == <<Counted(Pad(CommandToStr(c), 12))>>
CommandEncode(c, s) == Run(CommandSteps(c), s, 0)

\* buf.iter().take_while(|x| **x != 0x00)
RECURSIVE TakeWhileNonZero(_)
TakeWhileNonZero(buf) ==
    IF buf = <<>> \/ Head(buf) = 0 THEN <<>>
    ELSE <<Head(buf)>> \o TakeWhileNonZero(Tail(buf))

\* impl Decode for Command
CommandDecode(src) ==
    LET rd == Read(src, 12)
    IN  [res |-> CommandFromStr(TakeWhileNonZero(rd.buf)), r |-> rd.r]

(***************************************************************************)
(* MessageHeader: magic, command, length, checksum.                        *)
(***************************************************************************)
\* the header with its last two fields in the wrong order
HeaderStepsChecksumFirst(h) ==
    MagicSteps(h.magic) \o CommandSteps(h.command)
        \o ArraySteps(h.checksum) \o IntSteps(h.length, 4)

\* impl Encode for MessageHeader
HeaderSteps(h) ==
    MagicSteps(h.magic) \o CommandSteps(h.command)
        \o IntSteps(h.length, 4) \o ArraySteps(h.checksum)
HeaderEncode(h, s) == Run(HeaderSteps(h), s, 0)

\* Result::unwrap: an Err panics
Unwrap(d) == IF d.res.tag = "Err" THEN [res |-> Panic, r |-> d.r] ELSE d

\* impl Decode for MessageHeader
HeaderDecode(src) ==
    LET magic == Unwrap(MagicDecode(src))
        command == Unwrap(CommandDecode(magic.r))
        length == Unwrap(IntDecode(4, command.r))
        checksum == Unwrap(ArrayDecode(4, length.r))
    IN  IF magic.res.tag = "Panic" THEN magic
        ELSE IF command.res.tag = "Panic" THEN command
        ELSE IF length.res.tag = "Panic" THEN length
        ELSE IF checksum.res.tag = "Panic" THEN checksum
        ELSE [res |-> Ok([magic |-> magic.res.val,
                          command |-> command.res.val,
                          length |-> length.res.val,
                          checksum |-> checksum.res.val]),
              r |-> checksum.r]

(***************************************************************************)
(* ServicesList, NetAddr, timestamps and strings.                          *)
(***************************************************************************)
\* Services::value: a flag is one bit of the 64-bit word, named by its position
ServiceValue(bit) == <<2 ^ bit, 0, 0, 0>>

\* the fold of impl Encode for ServicesList over get_flags()
RECURSIVE FoldFlags(_, _)
FoldFlags(flags, acc) ==
    IF flags = <<>> THEN acc
    ELSE FoldFlags(Tail(flags), Xor64(acc, ServiceValue(Head(flags))))

\* impl Encode for ServicesList
ServicesSteps(flags) == IntSteps(FoldFlags(flags, Zero64), 8)
ServicesEncode(flags, s) == Run(ServicesSteps(flags), s, 0)

\* impl Encode for Port
PortSteps(port) == IntSteps(port, 2)

\* impl Encode for Ipv4Addr: the IPv4-mapped IPv6 octets
Ipv4Steps(ip) ==
    <<Counted(<<0, 0, 0, 0, 0, 0, 0, 0, 0, 0, 255, 255>> \o ip)>>

\* impl Encode for NetAddr
NetAddrSteps(addr) ==
    ServicesSteps(addr.services) \o Ipv4Steps(addr.ip) \o PortSteps(addr.port)

\* impl Encode for SystemTime: a time before the epoch panics
TimeSteps(t) ==
    IF t.before_epoch THEN <<PanicStep>> ELSE IntSteps(t.secs, 8)

\* impl Encode for String: the length as a VariableInteger, then the bytes
StringSteps(str) == VarIntSteps(<<Len(str), 0, 0, 0>>) \o <<Counted(str)>>

(***************************************************************************)
(* VersionMessage, VerackMessage, MessagePayload and Message.              *)
(***************************************************************************)
\* impl Encode for VersionMessage
VersionSteps(m) ==
    IntSteps(m.version, 4)
        \o ServicesSteps(m.services)
        \o TimeSteps(m.timestamp)
        \o NetAddrSteps(m.addr_recv)
        \o NetAddrSteps(m.addr_from)
        \o IntSteps(m.nonce, 8)
        \o StringSteps(m.agent)
        \o IntSteps(m.start_height, 4)
        \o IntSteps(FromByte(IF m.relay THEN 1 ELSE 0), 1)
VersionEncode(m, s) == Run(VersionSteps(m), s, 0)

\* impl Decode for VersionMessage: todo!()
VersionDecode(src) == [res |-> Panic, r |-> src]

\* VerackMessage::default()
VerackDefault == [variant |-> "Verack"]

\* impl Encode for VerackMessage: no write, the literal 0
VerackSteps == <<Literal(0)>>
VerackEncode(s) == Run(VerackSteps, s, 0)

\* impl Decode for VerackMessage
VerackDecode(src) == [res |-> Ok(VerackDefault), r |-> src]

\* impl Encode for MessagePayload
PayloadSteps(p) ==
    IF p.variant = "Version" THEN VersionSteps(p.body) ELSE VerackSteps

\* impl Encode for Message
MessageSteps(m) == HeaderSteps(m.header) \o PayloadSteps(m.payload)
MessageEncode(m, s) == Run(MessageSteps(m), s, 0)

\* impl Decode for Message
MessageDecode(src) ==
    LET header == HeaderDecode(src)
        payload == IF header.res.val.command = "Version"
                   THEN VersionDecode(header.r)
                   ELSE VerackDecode(header.r)
        again == HeaderDecode(payload.r)
    IN  IF header.res.tag # "Ok" THEN header
        ELSE IF payload.res.tag # "Ok" THEN payload
        ELSE IF again.res.tag # "Ok" THEN again
        ELSE [res |-> Ok([header |-> again.res.val, payload |-> payload.res.val]),
              r |-> again.r]

(***************************************************************************)
(* The values that are encoded and the byte strings that are decoded.      *)
(***************************************************************************)
U64Samples ==
    {<<a, b, c, d>> : a \in LowLimbs, b \in HighLimbs,
                      c \in HighLimbs, d \in HighLimbs}

IntKinds == {"u8", "u16", "u32", "u64"}
ArrayKinds == {"arr2", "arr4"}

\* std::mem::size_of of the integer types, and the array lengths
SizeOf(k) ==
    CASE k = "u8" -> 1
      [] k = "u16" -> 2
      [] k = "u32" -> 4
      [] k = "u64" -> 8
      [] k = "arr2" -> 2
      [] k = "arr4" -> 4

\* the array b+1, b+2, ... of n bytes
ArrayBases == {0, 92, 251}
ArraySample(n, b) == [i \in 1..n |-> b + i]

ChecksumSamples == {<<93, 246, 224, 226>>, <<1, 2, 3, 4>>}

HeaderSamples ==
    {[magic |-> m, command |-> c, length |-> Cast(x, 4), checksum |-> k] :
        m \in {"Main", "Test"}, c \in {"Version", "Verack"},
        x \in U64Samples, k \in ChecksumSamples}

\* the lists get_flags() may return: flags by bit position, at most
\* MaxFlags of them (bit 0 is Services::Network)
FlagBits == {0, 3, 10}
MaxFlags == 2
FlagLists == UNION {[1..n -> FlagBits] : n \in 0..MaxFlags}

NetAddrSamples ==
    {[services |-> f, ip |-> <<127, 0, 0, 1>>, port |-> <<8333, 0, 0, 0>>] :
        f \in {<<>>, <<0, 10>>}}

TimeSamples ==
    {[before_epoch |-> FALSE, secs |-> <<4660, 25000, 0, 0>>],
     [before_epoch |-> TRUE, secs |-> Zero64]}

\* "" and "/x:1/"
AgentSamples == {<<>>, <<47, 120, 58, 49, 47>>}

VersionSamples ==
    {[version |-> <<4479, 1, 0, 0>>, services |-> f, timestamp |-> t,
      addr_recv |-> a, addr_from |-> [a EXCEPT !.port = <<18333, 0, 0, 0>>],
      nonce |-> <<65535, 1, 252, 4660>>, agent |-> g,
      start_height |-> <<253, 0, 0, 0>>, relay |-> b] :
        f \in {<<>>, <<0>>}, t \in TimeSamples, a \in NetAddrSamples,
        g \in AgentSamples, b \in BOOLEAN}

\* Message::new: a header for the payload, on one of the networks
MessageSamples ==
    {[header |-> [magic |-> m, command |-> "Verack", length |-> Zero64,
                  checksum |-> <<93, 246, 224, 226>>],
      payload |-> VerackDefault] : m \in {"Main", "Test"}}
    \cup
    {[header |-> [magic |-> "Main", command |-> "Version",
                  length |-> <<VersionEncode(v, VecSink).n, 0, 0, 0>>,
                  checksum |-> <<1, 2, 3, 4>>],
      payload |-> [variant |-> "Version", body |-> v]] :
        v \in {x \in VersionSamples : ~x.timestamp.before_epoch}}

\* what may follow a value in the source
Trails == UNION {[1..n -> TrailBytes] : n \in 0..MaxTrail}

\* byte strings no encoder of this program produced
ForeignMagics == {<<1, 2, 3, 4>>, <<217, 180, 190, 249>>, <<0, 0, 0, 0>>}

\* "foo", "", twelve times "A", "verack!"
ForeignCommands ==
    {Pad(<<102, 111, 111>>, 12), Pad(<<>>, 12), [i \in 1..12 |-> 65],
     Pad(VerackStr \o <<33>>, 12)}

ForeignHeaders ==
    {m \o c \o <<0, 0, 0, 0>> \o <<93, 246, 224, 226>> :
        m \in ForeignMagics \cup {MagicBytes("Main")},
        c \in ForeignCommands \cup {Pad(VerackStr, 12)}}
    \ {MagicBytes("Main") \o Pad(VerackStr, 12) \o <<0, 0, 0, 0>>
         \o <<93, 246, 224, 226>>}

\* the header of a verack message
VerackHeader(m, k) ==
    [magic |-> m, command |-> "Verack", length |-> Zero64, checksum |-> k]

\* two headers back to back
DoubleHeaders ==
    {HeaderEncode(VerackHeader("Main", <<93, 246, 224, 226>>), VecSink).w.bytes
        \o HeaderEncode(VerackHeader("Test", k), VecSink).w.bytes :
        k \in ChecksumSamples}

ForeignSources(k) ==
    CASE k = "Magic" -> ForeignMagics
      [] k = "Command" -> ForeignCommands
      [] k = "MessageHeader" -> ForeignHeaders
      [] k = "Message" -> ForeignHeaders \cup DoubleHeaders

DecodableKinds ==
    IntKinds \cup ArrayKinds \cup
    {"VariableInteger", "Magic", "Command", "MessageHeader", "Message",
     "VersionMessage", "VerackMessage"}

(***************************************************************************)
(* The state machine: one value is encoded into a sink, the bytes of a     *)
(* Vec sink (cut short or followed by more bytes) or a foreign byte string *)
(* become the source, and the source is decoded.                           *)
(***************************************************************************)
NoResult == [tag |-> "None", val |-> "none"]
NoFeed == [mode |-> "none", cut |-> 0, trail |-> <<>>, src |-> <<>>]

Init ==
    /\ pc = "idle"
    /\ kind = "none"
    /\ val = <<>>
    /\ w = VecSink
    /\ ret = 0
    /\ feed = NoFeed
    /\ r = <<>>
    /\ res = NoResult

\* what a net_encode call returned (nothing when it panicked), and where the
\* program is after it
Returned(e) == IF e.ok THEN e.n ELSE 0
AfterEncode(e) == IF e.ok THEN "encoded" ELSE "aborted"

\* where the program is after a net_decode call
AfterDecode(d) == IF d.res.tag = "Panic" THEN "aborted" ELSE "decoded"

\* u8, u16, u32, u64 ::net_encode
EncodeInt ==
    /\ pc = "idle"
    /\ \E k \in IntKinds, x \in U64Samples, s \in Sinks :
        LET e == IntEncode(Cast(x, SizeOf(k)), SizeOf(k), s)
        IN  /\ kind' = k
            /\ val' = Cast(x, SizeOf(k))
            /\ w' = e.w
            /\ ret' = Returned(e)
            /\ pc' = AfterEncode(e)
    /\ UNCHANGED <<feed, r, res>>

\* [u8; 2], [u8; 4] ::net_encode
EncodeArray ==
    /\ pc = "idle"
    /\ \E k \in ArrayKinds, b \in ArrayBases, s \in Sinks :
        LET e == ArrayEncode(ArraySample(SizeOf(k), b), s)
        IN  /\ kind' = k
            /\ val' = ArraySample(SizeOf(k), b)
            /\ w' = e.w
            /\ ret' = Returned(e)
            /\ pc' = AfterEncode(e)
    /\ UNCHANGED <<feed, r, res>>

\* VariableInteger::net_encode
EncodeVarInt ==
    /\ pc = "idle"
    /\ \E v \in U64Samples, s \in Sinks :
        LET e == VarIntEncode(v, s)
        IN  /\ kind' = "VariableInteger"
            /\ val' = v
            /\ w' = e.w
            /\ ret' = Returned(e)
            /\ pc' = AfterEncode(e)
    /\ UNCHANGED <<feed, r, res>>

\* Magic::net_encode
EncodeMagic ==
    /\ pc = "idle"
    /\ \E m \in {"Main", "Test"}, s \in Sinks :
        LET e == MagicEncode(m, s)
        IN  /\ kind' = "Magic"
            /\ val' = m
            /\ w' = e.w
            /\ ret' = Returned(e)
            /\ pc' = AfterEncode(e)
    /\ UNCHANGED <<feed, r, res>>

\* Command::net_encode
EncodeCommand ==
    /\ pc = "idle"
    /\ \E c \in {"Version", "Verack"}, s \in Sinks :
        LET e == CommandEncode(c, s)
        IN  /\ kind' = "Command"
            /\ val' = c
            /\ w' = e.w
            /\ ret' = Returned(e)
            /\ pc' = AfterEncode(e)
    /\ UNCHANGED <<feed, r, res>>

\* MessageHeader::net_encode
EncodeHeader ==
    /\ pc = "idle"
    /\ \E h \in HeaderSamples, s \in Sinks :
        LET e == HeaderEncode(h, s)
        IN  /\ kind' = "MessageHeader"
            /\ val' = h
            /\ w' = e.w
            /\ ret' = Returned(e)
            /\ pc' = AfterEncode(e)
    /\ UNCHANGED <<feed, r, res>>

\* Message::net_encode
EncodeMessage ==
    /\ pc = "idle"
    /\ \E m \in MessageSamples, s \in Sinks :
        LET e == MessageEncode(m, s)
        IN  /\ kind' = "Message"
            /\ val' = m
            /\ w' = e.w
            /\ ret' = Returned(e)
            /\ pc' = AfterEncode(e)
    /\ UNCHANGED <<feed, r, res>>

\* ServicesList::net_encode
EncodeServices ==
    /\ pc = "idle"
    /\ \E f \in FlagLists, s \in Sinks :
        LET e == ServicesEncode(f, s)
        IN  /\ kind' = "ServicesList"
            /\ val' = f
            /\ w' = e.w
            /\ ret' = Returned(e)
            /\ pc' = AfterEncode(e)
    /\ UNCHANGED <<feed, r, res>>

\* VersionMessage::net_encode
EncodeVersion ==
    /\ pc = "idle"
    /\ \E m \in VersionSamples, s \in Sinks :
        LET e == VersionEncode(m, s)
        IN  /\ kind' = "VersionMessage"
            /\ val' = m
            /\ w' = e.w
            /\ ret' = Returned(e)
            /\ pc' = AfterEncode(e)
    /\ UNCHANGED <<feed, r, res>>

\* VerackMessage::net_encode
EncodeVerack ==
    /\ pc = "idle"
    /\ \E s \in Sinks :
        LET e == VerackEncode(s)
        IN  /\ kind' = "VerackMessage"
            /\ val' = VerackDefault
            /\ w' = e.w
            /\ ret' = Returned(e)
            /\ pc' = AfterEncode(e)
    /\ UNCHANGED <<feed, r, res>>

\* the bytes in the Vec, less `cut` bytes at the end, followed by `t`,
\* become the source: `&enc[..]` of the unit tests when cut = 0 and t = <<>>
Replay ==
    /\ pc = "encoded"
    /\ w.kind = "vec"
    /\ kind \in DecodableKinds
    /\ \E cut \in 0..Min(MaxCut, Len(w.bytes)), t \in Trails :
        /\ r' = SubSeq(w.bytes, 1, Len(w.bytes) - cut) \o t
        /\ feed' = [mode |-> "replay", cut |-> cut, trail |-> t, src |-> r']
    /\ pc' = "loaded"
    /\ UNCHANGED <<kind, val, w, ret, res>>

\* a byte string from elsewhere becomes the source
Foreign ==
    /\ pc = "idle"
    /\ \E k \in {"Magic", "Command", "MessageHeader", "Message"} :
        \E b \in ForeignSources(k) :
            /\ kind' = k
            /\ r' = b
    /\ feed' = [mode |-> "foreign", cut |-> 0, trail |-> <<>>, src |-> r']
    /\ pc' = "loaded"
    /\ UNCHANGED <<val, w, ret, res>>

\* u8, u16, u32, u64 ::net_decode
DecodeInt ==
    /\ pc = "loaded"
    /\ kind \in IntKinds
    /\ LET d == IntDecode(SizeOf(kind), r)
       IN  /\ res' = d.res
           /\ r' = d.r
           /\ pc' = AfterDecode(d)
    /\ UNCHANGED <<kind, val, w, ret, feed>>

\* [u8; 2], [u8; 4] ::net_decode
DecodeArray ==
    /\ pc = "loaded"
    /\ kind \in ArrayKinds
    /\ LET d == ArrayDecode(SizeOf(kind), r)
       IN  /\ res' = d.res
           /\ r' = d.r
           /\ pc' = AfterDecode(d)
    /\ UNCHANGED <<kind, val, w, ret, feed>>

\* VariableInteger::net_decode
DecodeVarInt ==
    /\ pc = "loaded"
    /\ kind = "VariableInteger"
    /\ LET d == VarIntDecode(r)
       IN  /\ res' = d.res
           /\ r' = d.r
           /\ pc' = AfterDecode(d)
    /\ UNCHANGED <<kind, val, w, ret, feed>>

\* Magic::net_decode
DecodeMagic ==
    /\ pc = "loaded"
    /\ kind = "Magic"
    /\ LET d == MagicDecode(r)
       IN  /\ res' = d.res
           /\ r' = d.r
           /\ pc' = AfterDecode(d)
    /\ UNCHANGED <<kind, val, w, ret, feed>>

\* Command::net_decode
DecodeCommand ==
    /\ pc = "loaded"
    /\ kind = "Command"
    /\ LET d == CommandDecode(r)
       IN  /\ res' = d.res
           /\ r' = d.r
           /\ pc' = AfterDecode(d)
    /\ UNCHANGED <<kind, val, w, ret, feed>>

\* MessageHeader::net_decode
DecodeHeader ==
    /\ pc = "loaded"
    /\ kind = "MessageHeader"
    /\ LET d == HeaderDecode(r)
       IN  /\ res' = d.res
           /\ r' = d.r
           /\ pc' = AfterDecode(d)
    /\ UNCHANGED <<kind, val, w, ret, feed>>

\* Message::net_decode
DecodeMessage ==
    /\ pc = "loaded"
    /\ kind = "Message"
    /\ LET d == MessageDecode(r)
       IN  /\ res' = d.res
           /\ r' = d.r
           /\ pc' = AfterDecode(d)
    /\ UNCHANGED <<kind, val, w, ret, feed>>

\* VersionMessage::net_decode
DecodeVersion ==
    /\ pc = "loaded"
    /\ kind = "VersionMessage"
    /\ LET d == VersionDecode(r)
       IN  /\ res' = d.res
           /\ r' = d.r
           /\ pc' = AfterDecode(d)
    /\ UNCHANGED <<kind, val, w, ret, feed>>

\* VerackMessage::net_decode
DecodeVerack ==
    /\ pc = "loaded"
    /\ kind = "VerackMessage"
    /\ LET d == VerackDecode(r)
       IN  /\ res' = d.res
           /\ r' = d.r
           /\ pc' = AfterDecode(d)
    /\ UNCHANGED <<kind, val, w, ret, feed>>

Next ==
    \/ EncodeInt
    \/ EncodeArray
    \/ EncodeVarInt
    \/ EncodeMagic
    \/ EncodeCommand
    \/ EncodeHeader
    \/ EncodeMessage
    \/ EncodeServices
    \/ EncodeVersion
    \/ EncodeVerack
    \/ Replay
    \/ Foreign
    \/ DecodeInt
    \/ DecodeArray
    \/ DecodeVarInt
    \/ DecodeMagic
    \/ DecodeCommand
    \/ DecodeHeader
    \/ DecodeMessage
    \/ DecodeVersion
    \/ DecodeVerack

Spec == Init /\ [][Next]_vars

(***************************************************************************)
(* What the properties below speak of.                                     *)
(***************************************************************************)
\* the number a little-endian byte string of at most 8 bytes stands for
ByteOrZero(bytes, i) == IF i <= Len(bytes) THEN bytes[i] ELSE 0
FromLe(bytes) ==
    [j \in 1..4 |-> ByteOrZero(bytes, 2 * j - 1) + 256 * ByteOrZero(bytes, 2 * j)]

\* the length of the shortest legal VariableInteger form of v
ShortestLen(v) ==
    IF v[2] = 0 /\ v[3] = 0 /\ v[4] = 0
    THEN (IF v[1] < 253 THEN 1 ELSE 3)
    ELSE IF v[3] = 0 /\ v[4] = 0 THEN 5 ELSE 9

\* the marker byte of a VariableInteger form of n bytes
MarkerOf(n) == IF n = 3 THEN 253 ELSE IF n = 5 THEN 254 ELSE 255

\* bytes is the shortest legal form of v
IsShortestForm(bytes, v) ==
    /\ Len(bytes) = ShortestLen(v)
    /\ IF Len(bytes) = 1 THEN bytes = <<v[1]>>
       ELSE /\ bytes[1] = MarkerOf(Len(bytes))
            /\ FromLe(Tail(bytes)) = v

\* a | b on naturals, and x | y on u64
RECURSIVE OrNat(_, _)
OrNat(a, b) ==
    IF a = 0 THEN b
    ELSE IF b = 0 THEN a
    ELSE (IF (a % 2) + (b % 2) > 0 THEN 1 ELSE 0) + 2 * OrNat(a \div 2, b \div 2)

Or64(x, y) == [j \in 1..4 |-> OrNat(x[j], y[j])]

\* the bitwise OR of the values of the flags
RECURSIVE OrAll(_)
OrAll(flags) ==
    IF flags = <<>> THEN Zero64
    ELSE Or64(<<2 ^ Head(flags), 0, 0, 0>>, OrAll(Tail(flags)))

\* the wire size of the fixed-size fields
WireSize(k) ==
    CASE k \in IntKinds \cup ArrayKinds -> SizeOf(k)
      [] k = "Magic" -> 4
      [] k = "Command" -> 12
      [] k = "MessageHeader" -> 24

FixedSizeKinds == IntKinds \cup ArrayKinds \cup {"Magic", "Command", "MessageHeader"}

\* a net_encode call into a Vec has returned
EncodedToVec(k) == pc = "encoded" /\ kind = k /\ w.kind = "vec"

\* a net_decode call on a source has ended, by returning or by panicking
DecodeEnded == feed.mode # "none" /\ pc \in {"decoded", "aborted"}

\* the source was exactly the bytes net_encode put into a Vec
ExactSource == feed.mode = "replay" /\ feed.cut = 0 /\ feed.trail = <<>>

\* net_decode returned Ok(v)
ReturnedOk(v) == res.tag = "Ok" /\ res.val = v

(***************************************************************************)
(* The properties.                                                         *)
(***************************************************************************)

\* C1: a VariableInteger encoded into an empty Vec is written in its shortest
\* legal form (1, 3, 5 or 9 bytes), net_encode returns that length, and
\* net_decode of exactly those bytes returns the value.
VarIntRoundTrip ==
    /\ EncodedToVec("VariableInteger") =>
        /\ ret = ShortestLen(val)
        /\ IsShortestForm(w.bytes, val)
    /\ (kind = "VariableInteger" /\ DecodeEnded /\ ExactSource) =>
        ReturnedOk(val)

\* a value of the 9-byte form came back from its own bytes
VarIntRoundTripWitness ==
    /\ kind = "VariableInteger" /\ pc = "decoded" /\ ExactSource
    /\ ret = 9 /\ val[4] = 65535 /\ val[1] = 4660
    /\ res.val = val

\* C2: decoding a VariableInteger from its encoding followed by trailing
\* bytes t returns the value and leaves exactly t unread.
VarIntNoOverRead ==
    (kind = "VariableInteger" /\ DecodeEnded /\ feed.mode = "replay"
        /\ feed.cut = 0) =>
        /\ ReturnedOk(val)
        /\ r = feed.trail

\* C3: decoding a Message from a source that holds one encoded Verack
\* message (a header and no payload bytes), possibly followed by more bytes,
\* returns a Message with that header and a Verack payload and consumes the
\* header only.
MessageOneHeader ==
    (kind = "Message" /\ DecodeEnded /\ feed.mode = "replay" /\ feed.cut = 0
        /\ val.header.command = "Verack") =>
        /\ res.tag = "Ok"
        /\ res.val.header = val.header
        /\ res.val.payload = VerackDefault
        /\ r = feed.trail

\* C4: an unrecognized command or magic makes the Magic, Command,
\* MessageHeader and Message decoders return InvalidData; none panics.
InvalidDataReturned ==
    (feed.mode = "foreign" /\ DecodeEnded
        /\ feed.src \in ForeignMagics \cup ForeignCommands \cup ForeignHeaders) =>
        (res.tag = "Err" /\ res.val = "InvalidData")

\* C5: a fixed-size decoder given fewer bytes than its wire size returns an
\* error; it neither returns a value nor panics.
TruncatedReturned ==
    (kind \in FixedSizeKinds /\ DecodeEnded /\ feed.mode = "replay"
        /\ Len(feed.src) < WireSize(kind)) =>
        res.tag = "Err"

VersionRoundTrip ==
    (kind = "VersionMessage" /\ DecodeEnded /\ ExactSource) =>
        ReturnedOk(val)

\* C8: a ServicesList encodes to the 8 little-endian bytes of the bitwise
\* OR of its flags, whatever the list get_flags returns.
ServicesEncodeIsOr ==
    EncodedToVec("ServicesList") =>
        /\ ret = 8
        /\ Len(w.bytes) = 8
        /\ FromLe(w.bytes) = OrAll(val)

\* C9: a u8, u16, u32 or u64 encoded into an empty Vec is its little-endian
\* bytes, net_encode returns the width, and net_decode of those bytes
\* returns the value.
IntRoundTrip ==
    /\ (kind \in IntKinds /\ pc = "encoded" /\ w.kind = "vec") =>
        /\ ret = SizeOf(kind)
        /\ Len(w.bytes) = SizeOf(kind)
        /\ FromLe(w.bytes) = val
    /\ (kind \in IntKinds /\ DecodeEnded /\ ExactSource) =>
        ReturnedOk(val)

\* a u64 with distinct bytes came back from its own bytes
IntRoundTripWitness ==
    /\ kind = "u64" /\ pc = "decoded" /\ ExactSource
    /\ val = <<4660, 1, 0, 65535>>
    /\ w.bytes = <<52, 18, 1, 0, 0, 0, 255, 255>>
    /\ res.val = val

\* C10: a net_encode call that returns has returned the number of bytes the
\* sink accepted, never more.
NoSilentDrop == pc = "encoded" => ret = Len(w.bytes)

====
